---- MODULE Spec2Model ----
(***************************************************************************)
(* Model of app/services/rag.py: the text chunker simple_chunk and the     *)
(* in-memory similarity index InMemoryIndex (build / query over an         *)
(* embedding provider and a flat inner-product vector index).              *)
(*                                                                         *)
(* and of the two places of the user interface that guard a resource:      *)
(* require_google_auth (app/services/auth/google_oauth.py, repeated in     *)
(* app/ui/main.py) and the upload tab of app/ui/main.py.                   *)
(*                                                                         *)
(* The specifications of the module:                                       *)
(*   ChunkSpec / ChunkFairSpec  one call of simple_chunk, step by step     *)
(*   Spec                       an InMemoryIndex object under any sequence *)
(*                              of build and query calls                   *)
(*   AuthSpec                   one browser session under any sequence of  *)
(*                              script runs calling require_google_auth    *)
(*   UploadSpec                 the upload tab under any sequence of       *)
(*                              uploads, clicks and script runs            *)
(***************************************************************************)
EXTENDS Integers, Sequences, FiniteSets, TLC

VARIABLES
    \* ---- simple_chunk call frame (rag.py:15-26)
    arg_text,      \* the text argument as passed by the caller
    text,          \* local `text` (rebound to the cleaned text at line 16)
    chunk_chars,   \* parameter chunk_chars
    overlap,       \* parameter overlap
    start,         \* local `start`
    end,           \* local `end` of the last window computed
    chunks,        \* local `chunks`
    result,        \* the returned list
    pc,            \* position in simple_chunk: "call","while","ret","done","off"
    iters,         \* number of loop bodies executed so far
    \* ---- InMemoryIndex object (rag.py:29-72)
    index,         \* self.index: the flat inner-product index, or none
    meta,          \* self.meta
    dim,           \* self.dim
    ret,           \* the last build / query call: its arguments and outcome
                   \* (op "mutate": the caller changed its list since)
    hist,          \* history: the last successful build and what followed it
    \* ---- require_google_auth (google_oauth.py:42-132)
    secrets,       \* st.secrets: GOOGLE_CLIENT_ID, GOOGLE_CLIENT_SECRET, ALLOWED_EMAILS
    session,       \* st.session_state: whether it has "user_email", and its value
    qp,            \* st.query_params: the values of "code" and of "state"
    auth,          \* the last thing that happened: the run's inputs and outcome
    \* ---- the upload tab (main.py:248-283)
    max_audio_minutes,  \* main.py:225
    uploaded,      \* the file_uploader widget's file, if any
    transcript,    \* st.session_state.transcript
    saved,         \* the transcripts written under DATA_DIR/transcripts
    shown,         \* what the last run rendered in the tab
    up             \* the last thing that happened in the tab

chunkVars == <<arg_text, text, chunk_chars, overlap, start, end, chunks, result, pc, iters>>

indexVars == <<index, meta, dim, ret, hist>>

authVars == <<secrets, session, qp, auth>>

uploadVars == <<max_audio_minutes, uploaded, transcript, saved, shown, up>>

uiVars == <<secrets, session, qp, auth,
            max_audio_minutes, uploaded, transcript, saved, shown, up>>

vars == <<arg_text, text, chunk_chars, overlap, start, end, chunks, result, pc, iters,
          index, meta, dim, ret, hist,
          secrets, session, qp, auth,
          max_audio_minutes, uploaded, transcript, saved, shown, up>>

-----------------------------------------------------------------------------
(* Bounds of the chunker inputs *)

MaxTextLen == 4
MaxChunk == 3
MaxIter == 6

Chars == {"a", " ", "\n"}

IsSpace(c) == c \in {" ", "\n"}

Min(a, b) == IF a < b THEN a ELSE b
Max(a, b) == IF a > b THEN a ELSE b

RECURSIVE SeqsUpTo(_, _)
SeqsUpTo(S, n) ==
    IF n = 0 THEN {<<>>}
    ELSE LET shorter == SeqsUpTo(S, n - 1)
         IN  shorter \cup {Append(s, c) : s \in {t \in shorter : Len(t) = n - 1}, c \in S}

InputTexts == SeqsUpTo(Chars, MaxTextLen)
InputParams == (0 - 1)..MaxChunk

-----------------------------------------------------------------------------
(* Python string primitives used by simple_chunk *)

\* text[i:j] with Python's slice index normalisation (negative indices count
\* from the end, everything is clamped to 0..len).
SliceIndex(i, n) == IF i < 0 THEN Max(i + n, 0) ELSE Min(i, n)

Slice(s, i, j) ==
    LET lo == SliceIndex(i, Len(s))
        hi == SliceIndex(j, Len(s))
    IN  IF lo >= hi THEN <<>> ELSE SubSeq(s, lo + 1, hi)

\* str.strip(): drop leading and trailing whitespace
RECURSIVE LStrip(_)
LStrip(s) == IF s # <<>> /\ IsSpace(Head(s)) THEN LStrip(Tail(s)) ELSE s

RECURSIVE RStrip(_)
RStrip(s) ==
    IF s # <<>> /\ IsSpace(s[Len(s)]) THEN RStrip(SubSeq(s, 1, Len(s) - 1)) ELSE s

Strip(s) == RStrip(LStrip(s))

\* End (inclusive) of the maximal whitespace run that starts at position i
RECURSIVE RunEnd(_, _)
RunEnd(s, i) ==
    IF i < Len(s) /\ IsSpace(s[i + 1]) THEN RunEnd(s, i + 1) ELSE i

\* re.sub(r"\s+\n", "\n", s) scanning from position i (1-based).  At a
\* whitespace character the greedy \s+ takes the maximal run and backtracks
\* to the last newline of the run that has at least one run character before
\* it; the matched span becomes one newline.
RECURSIVE ReSubFrom(_, _)
ReSubFrom(s, i) ==
    IF i > Len(s) THEN <<>>
    ELSE IF ~IsSpace(s[i]) THEN <<s[i]>> \o ReSubFrom(s, i + 1)
    ELSE LET e == RunEnd(s, i)
             nls == {j \in (i + 1)..e : s[j] = "\n"}
         IN  IF nls = {} THEN <<s[i]>> \o ReSubFrom(s, i + 1)
             ELSE LET m == CHOOSE j \in nls : \A k \in nls : k <= j
                  IN  <<"\n">> \o ReSubFrom(s, m + 1)

ReSub(s) == ReSubFrom(s, 1)

\* line 16
CleanText(s) == Strip(ReSub(s))

\* Mutant of DropBlank: the filter of line 26 left out
KeepAll(cs) == cs

\* line 26: [c for c in chunks if c.strip()]
RECURSIVE DropBlank(_)
DropBlank(cs) ==
    IF cs = <<>> THEN <<>>
    ELSE IF Strip(Head(cs)) # <<>> THEN <<Head(cs)>> \o DropBlank(Tail(cs))
    ELSE DropBlank(Tail(cs))

\* line 20
WindowEnd(s, st, cc) == Min(Len(s), st + cc)

\* Mutants of NextStart: the next window starts one character late / early
NextStartLate(e, ov) == e - ov + 1
NextStartEarly(e, ov) == e - ov - 1

\* line 25
NextStart(e, ov) == e - ov

-----------------------------------------------------------------------------
(* InMemoryIndex: data *)

\* line 43
B == 64

\* Bounds of the index inputs
MaxSmallSegs == 2
MaxTopK == 2

\* The provider's vocabulary, and the raw (unnormalised) embedding it returns
\* for each text in its first two coordinates.  "paris" and "capital" point in
\* the same direction with different lengths; "mute" is the degenerate
\* all-zero vector.
TextList == <<"cat", "paris", "capital", "mute">>

Texts == {TextList[i] : i \in 1..Len(TextList)}

BaseEmbedding(t) ==
    CASE t = "cat" -> <<3, 4>>
      [] t = "paris" -> <<8, 6>>
      [] t = "capital" -> <<4, 3>>
      [] OTHER -> <<0, 0>>

\* Vector lengths the provider may answer with
Dims == {2, 3}

\* What one call of client.embeddings.create does: it raises, or it answers
\* with one vector of length d per input
Raises == [ok |-> FALSE, d |-> 0]
Answers(d) == [ok |-> TRUE, d |-> d]
Responses == {Raises} \cup {Answers(d) : d \in Dims}

RawEmbedding(t, d) == BaseEmbedding(t) \o [i \in 1..(d - 2) |-> 0]

\* The segment lists a caller passes to build: document doc cut into n
\* segments {text, start, speaker}
Segment(doc, i) ==
    [text |-> TextList[((i + doc) % Len(TextList)) + 1], start |-> i, speaker |-> doc]

Segments(doc, n) == [i \in 1..n |-> Segment(doc, i)]

Docs == {1, 2}

\* The (doc, n) a caller builds from: the empty list, short lists of both
\* documents, and one list that needs a second batch
BuildInputs ==
    {<<1, 0>>} \cup (Docs \X (1..MaxSmallSegs)) \cup {<<1, B + 1>>}

-----------------------------------------------------------------------------
(* numpy and the flat inner-product index *)

RECURSIVE SumSqTo(_, _)
SumSqTo(v, i) == IF i = 0 THEN 0 ELSE v[i] * v[i] + SumSqTo(v, i - 1)

SumSq(v) == SumSqTo(v, Len(v))

RECURSIVE SumAbsTo(_, _)
SumAbsTo(v, i) ==
    IF i = 0 THEN 0 ELSE (IF v[i] < 0 THEN 0 - v[i] ELSE v[i]) + SumAbsTo(v, i - 1)

SumAbs(v) == SumAbsTo(v, Len(v))

\* np.linalg.norm of one row; the raw embeddings have integral norms, and a
\* norm is at most the sum of the absolute coordinates
Norm(v) == LET ss == SumSq(v) IN CHOOSE r \in 0..SumAbs(v) : r * r = ss

\* lines 37-39 for one row: v / (norm + 1e-12), kept as the exact quotient
\* num / den.  For the all-zero row the quotient is 0 / 1e-12 = 0, kept as 0 / 1;
\* for the others 1e-12 is below float32 resolution of the norm.
NormalizeRow(v) == LET n == Norm(v) IN [num |-> v, den |-> IF n = 0 THEN 1 ELSE n]

\* lines 37-39
Normalize(X) == [i \in 1..Len(X) |-> NormalizeRow(X[i])]

\* Number of iterations of the loop of line 44
NumBatches(n) == (n + B - 1) \div B

\* line 45: texts[i:i + B] for the b-th iteration
Batch(texts, b) == SubSeq(texts, (b - 1) * B + 1, Min(b * B, Len(texts)))

\* line 47: the rows of one answer
BatchRows(batch, d) == [j \in 1..Len(batch) |-> RawEmbedding(batch[j], d)]

\* Mutant of VStack: the per-batch arrays are stacked last batch first
RECURSIVE VStackReversed(_)
VStackReversed(embs) ==
    IF embs = <<>> THEN <<>> ELSE VStackReversed(Tail(embs)) \o Head(embs)

\* line 48: np.vstack of the per-batch arrays, in order
RECURSIVE VStack(_)
VStack(embs) == IF embs = <<>> THEN <<>> ELSE Head(embs) \o VStack(Tail(embs))

\* lines 41-49.  resps[b] is the provider's answer to the b-th batch.  The
\* outcome names the exception that leaves embed, if any, and the number of
\* provider calls made.
Embed(texts, resps) ==
    LET nb == NumBatches(Len(texts))
        raising == {b \in 1..nb : ~resps[b].ok}
    IN  IF raising # {}
        THEN [status |-> "error", err |-> "ProviderError", X |-> <<>>,
              calls |-> CHOOSE b \in raising : \A c \in raising : b <= c]
        ELSE IF nb = 0
        THEN [status |-> "error", err |-> "ValueError", X |-> <<>>, calls |-> 0]
        ELSE IF \E b \in 1..nb : resps[b] # resps[1]
        THEN [status |-> "error", err |-> "ValueError", X |-> <<>>, calls |-> nb]
        ELSE [status |-> "ok", err |-> "",
              X |-> Normalize(VStack([b \in 1..nb |-> BatchRows(Batch(texts, b), resps[b].d)])),
              calls |-> nb]

\* The segment lists of BuildInputs and their texts (line 56)
BuildSegments == [arg \in BuildInputs |-> Segments(arg[1], arg[2])]

BuildTexts ==
    [arg \in BuildInputs |-> [i \in 1..arg[2] |-> BuildSegments[arg][i].text]]

\* line 57: what embed makes of each list under each sequence of provider
\* answers.  The table is Embed on BuildInputs; comparing it with itself makes
\* the model checker enumerate it once instead of at every build.
BuildEmbed ==
    LET table == [arg \in BuildInputs |->
                    [resps \in [1..NumBatches(arg[2]) -> Responses] |->
                        Embed(BuildTexts[arg], resps)]]
    IN  IF table = table THEN table ELSE table

\* A segment of no list passed to build
Stranger == [text |-> "cat", start |-> 0, speaker |-> 0]

\* What a caller may do to a list it holds: list.append, list.pop, l[0] = x
ListChanges == {"append", "remove", "replace"}

ListAfter(l, how) ==
    CASE how = "append" -> Append(l, Stranger)
      [] how = "remove" -> SubSeq(l, 1, Len(l) - 1)
      [] OTHER -> [l EXCEPT ![1] = Stranger]

NoIndex == [none |-> TRUE, d |-> 0, xb |-> <<>>]

\* Mutant of NewIndex: the rows are added to the index already there
AddToOldIndex(old, d, X) ==
    IF old.none THEN [none |-> FALSE, d |-> d, xb |-> X]
    ELSE [none |-> FALSE, d |-> d, xb |-> old.xb \o X]

\* lines 59-60: faiss.IndexFlatIP(dim), then add(X)
NewIndex(old, d, X) == [none |-> FALSE, d |-> d, xb |-> X]

\* Inner product of a stored row with the query row, as num / (a.den * q.den)
RECURSIVE DotTo(_, _, _)
DotTo(a, q, i) == IF i = 0 THEN 0 ELSE a[i] * q[i] + DotTo(a, q, i - 1)

Dot(a, q) == DotTo(a.num, q.num, Len(a.num))

\* Position i (0-based) is ranked before position j: its inner product with
\* the query row is larger, or equal with i the lower position (the library
\* compares (score, id) pairs).  sc[i + 1] is the numerator Dot(xb[i + 1], q);
\* the query row's denominator is common to both sides.
Before(xb, sc, i, j) ==
    LET si == sc[i + 1] * xb[j + 1].den
        sj == sc[j + 1] * xb[i + 1].den
    IN  si > sj \/ (si = sj /\ i < j)

\* The position ranked first among the positions 0..n-1 not yet taken
RECURSIVE Best(_, _, _, _, _)
Best(xb, sc, taken, n, cand) ==
    IF n = 0 THEN cand
    ELSE IF (n - 1) \in taken THEN Best(xb, sc, taken, n - 1, cand)
    ELSE IF cand = 0 - 1 \/ Before(xb, sc, n - 1, cand)
         THEN Best(xb, sc, taken, n - 1, n - 1)
         ELSE Best(xb, sc, taken, n - 1, cand)

\* IndexFlatIP.search for one query row: the k best positions by decreasing
\* inner product, padded with -1 when fewer than k rows are stored
RECURSIVE TopK(_, _, _, _)
TopK(xb, sc, k, taken) ==
    IF k = 0 THEN <<>>
    ELSE LET best == Best(xb, sc, taken, Len(xb), 0 - 1)
         IN  <<best>> \o TopK(xb, sc, k - 1, taken \cup {best})

Scores(xb, q) == [i \in 1..Len(xb) |-> Dot(xb[i], q)]

\* line 66: index.search(qv, top_k) by a scan of the stored rows
SearchScan(idx, q, k) ==
    LET sc == Scores(idx.xb, q)
    IN  IF sc = sc THEN TopK(idx.xb, sc, k, {}) ELSE <<>>

\* The indexes a build of one of BuildInputs leaves, and the query rows embed
\* makes of the vocabulary
BuiltIndexes ==
    UNION {{NewIndex(NoIndex, Len(BuildEmbed[arg][r].X[1].num), BuildEmbed[arg][r].X) :
               r \in {x \in DOMAIN BuildEmbed[arg] : BuildEmbed[arg][x].status = "ok"}} :
           arg \in BuildInputs}

QueryRows == {NormalizeRow(RawEmbedding(t, d)) : t \in Texts, d \in Dims}

\* SearchScan on BuiltIndexes, enumerated once (as BuildEmbed)
SearchTable ==
    LET table == [idx \in BuiltIndexes |->
                    [a \in {r \in QueryRows : Len(r.num) = idx.d} \X (1..MaxTopK) |->
                        SearchScan(idx, a[1], a[2])]]
    IN  IF table = table THEN table ELSE table

\* line 66
Search(idx, q, k) ==
    IF idx \in DOMAIN SearchTable /\ <<q, k>> \in DOMAIN SearchTable[idx]
    THEN SearchTable[idx][<<q, k>>]
    ELSE SearchScan(idx, q, k)

\* Mutant of Hits: the padding is not skipped, and meta[-1] is the last segment
RECURSIVE HitsNoSkip(_, _)
HitsNoSkip(I, m) ==
    IF I = <<>> THEN <<>>
    ELSE <<m[IF Head(I) = 0 - 1 THEN Len(m) ELSE Head(I) + 1]>> \o HitsNoSkip(Tail(I), m)

\* lines 67-71: positions already looked up in meta, skipping -1
RECURSIVE Hits(_, _)
Hits(I, m) ==
    IF I = <<>> THEN <<>>
    ELSE IF Head(I) = 0 - 1 THEN Hits(Tail(I), m)
    ELSE <<m[Head(I) + 1]>> \o Hits(Tail(I), m)

NoRet ==
    [op |-> "none", status |-> "ok", err |-> "", calls |-> 0, doc |-> 0, n |-> 0,
     resps |-> <<>>, q |-> "", top_k |-> 0, I |-> <<>>, hits |-> <<>>]

\* Mutant of QueryBody: a provider failure is swallowed and [] returned
QuerySwallows(idx, m, q, k, resp) ==
    LET e == Embed(<<q>>, <<resp>>)
        call == [NoRet EXCEPT !.op = "query", !.q = q, !.top_k = k,
                              !.resps = <<resp>>, !.calls = e.calls]
    IN  IF e.status = "error" THEN call
        ELSE IF Len(e.X[1].num) # idx.d
        THEN [call EXCEPT !.status = "error", !.err = "AssertionError"]
        ELSE LET I == Search(idx, e.X[1], k)
             IN  IF \E p \in 1..Len(I) : I[p] >= Len(m)
                 THEN [call EXCEPT !.status = "error", !.err = "IndexError", !.I = I]
                 ELSE [call EXCEPT !.I = I, !.hits = Hits(I, m)]

\* lines 65-72: query on an index that is there
QueryBody(idx, m, q, k, resp) ==
    LET e == Embed(<<q>>, <<resp>>)
        call == [NoRet EXCEPT !.op = "query", !.q = q, !.top_k = k,
                              !.resps = <<resp>>, !.calls = e.calls]
    IN  IF e.status = "error"
        THEN [call EXCEPT !.status = "error", !.err = e.err]
        ELSE IF Len(e.X[1].num) # idx.d
        THEN [call EXCEPT !.status = "error", !.err = "AssertionError"]
        ELSE LET I == Search(idx, e.X[1], k)
             IN  IF \E p \in 1..Len(I) : I[p] >= Len(m)
                 THEN [call EXCEPT !.status = "error", !.err = "IndexError", !.I = I]
                 ELSE [call EXCEPT !.I = I, !.hits = Hits(I, m)]

\* Mutant of QueryResult: the query is embedded before the index is looked at
QueryEmbedsFirst(idx, m, q, k, resp) ==
    LET e == Embed(<<q>>, <<resp>>)
    IN  IF e.status = "ok" /\ idx.none
        THEN [NoRet EXCEPT !.op = "query", !.q = q, !.top_k = k,
                           !.resps = <<resp>>, !.calls = e.calls]
        ELSE QueryBody(idx, m, q, k, resp)

\* lines 62-72
QueryResult(idx, m, q, k, resp) ==
    IF idx.none
    THEN [NoRet EXCEPT !.op = "query", !.q = q, !.top_k = k, !.resps = <<resp>>]
    ELSE QueryBody(idx, m, q, k, resp)

NoHist ==
    [built |-> FALSE, doc |-> 0, n |-> 0, dim |-> 0,
     failedSince |-> FALSE, replaced |-> FALSE, mutated |-> FALSE]

\* lines 30-35
IndexInit ==
    /\ index = NoIndex
    /\ meta = <<>>
    /\ dim = 0
    /\ ret = NoRet
    /\ hist = NoHist

\* No call of simple_chunk is in progress
ChunkOff ==
    /\ arg_text = <<>>
    /\ text = <<>>
    /\ chunk_chars = 0
    /\ overlap = 0
    /\ start = 0
    /\ end = 0
    /\ chunks = <<>>
    /\ result = <<>>
    /\ pc = "off"
    /\ iters = 0

-----------------------------------------------------------------------------
(* require_google_auth: data.  Strings are sequences of characters. *)

\* Bound of the "state" query parameter's length
MaxStateLen == 4

StateChars == {"n", "."}

StateStrings == SeqsUpTo(StateChars, MaxStateLen)

\* A "code" query parameter is the empty string or some code
CodeStrings == {<<>>, <<"c">>}

\* A key of st.query_params holds no value, one value, or (for "code") two
ParamLists(S) == {<<>>} \cup {<<x>> : x \in S}

CodeParams == ParamLists(CodeStrings) \cup {<<<<>>, <<"c">>>>}

StateParams == ParamLists(StateStrings)

\* line 24: secrets.token_urlsafe(16) is a non-empty string without "."
Nonces == {<<"n">>}

NoEmail == "None"

\* What the verified ID token's info.get("email") may be (line 124)
TokenEmails == {"alice", "bob", NoEmail}

\* st.secrets: client id and secret set or missing, two possible secrets,
\* ALLOWED_EMAILS empty (the default of line 47) or a list
SecretsConfigs ==
    {[client_id |-> i, client_secret |-> k, allowed |-> a] :
        i \in {"", "id"}, k \in {"", "k", "j"}, a \in {<<>>, <<"alice">>}}

\* lines 19-20, 25, 31: _b64url(hmac.new(secret, nonce, sha256).digest()), a
\* keyed function of the nonce onto strings without "."; here onto "n" or
\* "nn" by the key and the parity of the nonce's length
B64Hmac(secret, nonce) ==
    [i \in 1..(1 + ((Len(nonce) + (IF secret = "k" THEN 0 ELSE 1)) % 2)) |-> "n"]

\* lines 22-26
MakeState(secret, nonce) == nonce \o <<".">> \o B64Hmac(secret, nonce)

\* Position of the first "." of s, 0 when there is none
FirstDot(s) ==
    IF \E i \in 1..Len(s) : s[i] = "."
    THEN CHOOSE i \in 1..Len(s) : s[i] = "." /\ \A j \in 1..(i - 1) : s[j] # "."
    ELSE 0

\* Mutant of VerifyState: only the shape nonce.signature is looked at
VerifyStateShapeOnly(state, secret) == FirstDot(state) # 0

\* lines 28-34: state.split(".", 1) (unpacking fails without a "."), then
\* the signature is compared with the one computed from the nonce
VerifyState(state, secret) ==
    LET d == FirstDot(state)
    IN  IF d = 0 THEN FALSE
        ELSE SubSeq(state, d + 1, Len(state)) = B64Hmac(secret, SubSeq(state, 1, d - 1))

\* lines 36-40: the first value of the key, "" when there is none
Qp(v) == IF v = <<>> THEN <<>> ELSE v[1]

\* line 126: email not in allowed
InList(x, l) == \E i \in 1..Len(l) : l[i] = x

NoSession == [has |-> FALSE, email |-> ""]

NoParams == [code |-> <<>>, state |-> <<>>]

NoAuth ==
    [op |-> "none", outcome |-> "none", msg |-> "", had |-> FALSE, stored |-> FALSE,
     email |-> "", code |-> <<>>, state |-> <<>>, exch |-> "", verified |-> FALSE,
     link |-> <<>>]

\* No browser session is being followed
AuthOff ==
    /\ secrets = [client_id |-> "", client_secret |-> "", allowed |-> <<>>]
    /\ session = NoSession
    /\ qp = NoParams
    /\ auth = NoAuth

-----------------------------------------------------------------------------
(* The upload tab: data.  Durations are in milliseconds. *)

\* Bound of MAX_AUDIO_MINUTES (main.py:225 reads it from st.secrets)
MaxMinutes == 2

MsPerMinute == 60000

\* The lengths of the audio files uploaded: around every whole minute
FileLengths ==
    {l \in {m * MsPerMinute + e : m \in 0..(MaxMinutes + 1), e \in {0 - 1, 0, 1}} : l >= 0}

\* An uploaded file: its length, and whether AudioSegment.from_file and
\* wave.open can read it where the app runs
Files ==
    {[has |-> TRUE, ms |-> l, pydub |-> p, wave |-> w] :
        l \in FileLengths, p \in BOOLEAN, w \in BOOLEAN}

NoFile == [has |-> FALSE, ms |-> 0, pydub |-> FALSE, wave |-> FALSE]

\* asr.py:25-36: the length pydub reports, else the one of the wave header,
\* else 0.0
AudioDurationMs(f) ==
    IF f.pydub THEN f.ms
    ELSE IF f.wave THEN f.ms
    ELSE 0

\* utils.py:54-55: (file_seconds / 60.0) <= max_minutes
MinutesLimitOk(file_ms, max_minutes) == file_ms <= max_minutes * MsPerMinute

\* main.py:277 calls transcribe(audio_path, model=..., language=...), and
\* asr.py:39 defines transcribe(audio_path, engine, language): the call
\* raises TypeError before the function body starts
TranscribeCall == [status |-> "error", err |-> "TypeError", started |-> FALSE]

NoTranscript == [has |-> FALSE, of |-> NoFile]

NothingShown == [info |-> FALSE, dur |-> 0, error |-> FALSE, button |-> FALSE]

NoUp == [op |-> "none", started |-> FALSE, stored |-> FALSE, err |-> ""]

\* The upload tab is not being followed
UploadOff ==
    /\ max_audio_minutes = 0
    /\ uploaded = NoFile
    /\ transcript = NoTranscript
    /\ saved = {}
    /\ shown = NothingShown
    /\ up = NoUp

-----------------------------------------------------------------------------
(* simple_chunk, one step per action *)

ChunkInit ==
    /\ arg_text \in InputTexts
    /\ chunk_chars \in InputParams
    /\ overlap \in InputParams
    /\ text = arg_text
    /\ start = 0
    /\ end = 0
    /\ chunks = <<>>
    /\ result = <<>>
    /\ pc = "call"
    /\ iters = 0
    /\ IndexInit
    /\ AuthOff
    /\ UploadOff

\* lines 16-18
ChunkEnter ==
    /\ pc = "call"
    /\ text' = CleanText(text)
    /\ chunks' = <<>>
    /\ start' = 0
    /\ pc' = "while"
    /\ UNCHANGED <<arg_text, chunk_chars, overlap, end, result, iters>>
    /\ UNCHANGED <<indexVars, uiVars>>

\* lines 19-25, one iteration of the loop body
ChunkLoopBody ==
    /\ pc = "while"
    /\ start < Len(text)
    /\ iters < MaxIter
    /\ LET e == WindowEnd(text, start, chunk_chars)
       IN  /\ end' = e
           /\ chunks' = Append(chunks, Slice(text, start, e))
           /\ IF e = Len(text)
              THEN /\ pc' = "ret"
                   /\ start' = start
              ELSE /\ pc' = "while"
                   /\ start' = NextStart(e, overlap)
    /\ iters' = iters + 1
    /\ UNCHANGED <<arg_text, text, chunk_chars, overlap, result>>
    /\ UNCHANGED <<indexVars, uiVars>>

\* line 19, the loop condition is false
ChunkLoopExit ==
    /\ pc = "while"
    /\ ~(start < Len(text))
    /\ pc' = "ret"
    /\ UNCHANGED <<arg_text, text, chunk_chars, overlap, start, end, chunks, result, iters>>
    /\ UNCHANGED <<indexVars, uiVars>>

\* line 26
ChunkReturn ==
    /\ pc = "ret"
    /\ result' = DropBlank(chunks)
    /\ pc' = "done"
    /\ UNCHANGED <<arg_text, text, chunk_chars, overlap, start, end, chunks, iters>>
    /\ UNCHANGED <<indexVars, uiVars>>

ChunkNext == ChunkEnter \/ ChunkLoopBody \/ ChunkLoopExit \/ ChunkReturn

ChunkSpec == ChunkInit /\ [][ChunkNext]_vars

ChunkFairSpec == ChunkSpec /\ WF_vars(ChunkNext)

-----------------------------------------------------------------------------
(* InMemoryIndex: the operations *)

Init ==
    /\ IndexInit
    /\ ChunkOff
    /\ AuthOff
    /\ UploadOff

\* lines 51-60, called with segments = Segments(doc, n)
Build(doc, n, resps) ==
    LET segments == BuildSegments[<<doc, n>>]
        e == BuildEmbed[<<doc, n>>][resps]
        call == [NoRet EXCEPT !.op = "build", !.doc = doc, !.n = n, !.resps = resps,
                              !.status = e.status, !.err = e.err, !.calls = e.calls]
    IN  /\ meta' = segments
        /\ ret' = call
        /\ IF e.status = "ok"
           THEN /\ dim' = Len(e.X[1].num)
                /\ index' = NewIndex(index, Len(e.X[1].num), e.X)
                /\ hist' = [built |-> TRUE, doc |-> doc, n |-> n,
                            dim |-> dim', failedSince |-> FALSE,
                            replaced |-> hist.built /\ (hist.doc # doc \/ hist.n # n),
                            mutated |-> FALSE]
           ELSE /\ UNCHANGED <<dim, index>>
                /\ hist' = [hist EXCEPT !.failedSince = TRUE, !.mutated = FALSE]
        /\ UNCHANGED <<chunkVars, uiVars>>

\* Mutant of Query: the segments returned are popped off self.meta
QueryConsumesMeta(q, top_k, resp) ==
    /\ ret' = QueryResult(index, meta, q, top_k, resp)
    /\ meta' = IF ret'.hits = <<>> THEN meta ELSE SubSeq(meta, 1, Len(meta) - 1)
    /\ UNCHANGED <<index, dim, hist, chunkVars, uiVars>>

\* lines 62-72
Query(q, top_k, resp) ==
    /\ ret' = QueryResult(index, meta, q, top_k, resp)
    /\ UNCHANGED <<index, meta, dim, hist, chunkVars, uiVars>>

\* The caller of build keeps the list it passed, and line 55 stores that very
\* list object in self.meta (no copy is taken): what the caller does to its
\* list afterwards is done to self.meta.  One change per build call.
CallerMutates(how) ==
    /\ hist.built \/ hist.failedSince
    /\ ~hist.mutated
    /\ how = "remove" => meta # <<>>
    /\ how = "replace" => meta # <<>>
    /\ meta' = ListAfter(meta, how)
    /\ ret' = [NoRet EXCEPT !.op = "mutate"]
    /\ hist' = [hist EXCEPT !.mutated = TRUE]
    /\ UNCHANGED <<index, dim, chunkVars, uiVars>>

Next ==
    \/ \E arg \in BuildInputs :
          \E resps \in [1..NumBatches(arg[2]) -> Responses] : Build(arg[1], arg[2], resps)
    \/ \E q \in Texts, top_k \in 1..MaxTopK, resp \in Responses : Query(q, top_k, resp)
    \/ \E how \in ListChanges : CallerMutates(how)

Spec == Init /\ [][Next]_vars

-----------------------------------------------------------------------------
(* require_google_auth, one script run per action *)

AuthInit ==
    /\ secrets \in SecretsConfigs
    /\ session = NoSession
    /\ qp = NoParams
    /\ auth = NoAuth
    /\ IndexInit
    /\ ChunkOff
    /\ UploadOff

\* The browser opens the app's URL with some query string (the user, the
\* redirect back from the provider, or anybody's link)
Navigate(c, s) ==
    /\ qp' = [code |-> c, state |-> s]
    /\ auth' = [NoAuth EXCEPT !.op = "navigate"]
    /\ UNCHANGED <<secrets, session>>
    /\ UNCHANGED <<chunkVars, indexVars, uploadVars>>

\* lines 42-132, one run.  nonce is what line 24 draws; exch is what
\* flow.fetch_token does with the code (line 120), verif what
\* id_token.verify_oauth2_token does with the ID token (line 123).
RequireGoogleAuth(nonce, exch, verif) ==
    LET client_id == secrets.client_id
        client_secret == secrets.client_secret
        allowed == secrets.allowed
        code == Qp(qp.code)
        state == Qp(qp.state)
        call == [NoAuth EXCEPT !.op = "run", !.had = session.has]
        read == [call EXCEPT !.code = code, !.state = state]
    IN  /\ IF session.has
           THEN /\ auth' = [call EXCEPT !.outcome = "return", !.email = session.email]
                /\ UNCHANGED <<session, qp>>
           ELSE IF client_id = "" \/ client_secret = ""
           THEN /\ auth' = [call EXCEPT !.outcome = "stop",
                                        !.msg = "Google OAuth is not configured."]
                /\ UNCHANGED <<session, qp>>
           ELSE IF code = <<>>
           THEN /\ auth' = [read EXCEPT !.outcome = "stop", !.msg = "Sign in with Google",
                                        !.link = MakeState(client_secret, nonce)]
                /\ UNCHANGED <<session, qp>>
           ELSE IF ~VerifyState(state, client_secret)
           THEN /\ auth' = [read EXCEPT !.outcome = "stop", !.msg = "State mismatch."]
                /\ UNCHANGED <<session, qp>>
           ELSE IF exch = "raise"
           THEN /\ auth' = [read EXCEPT !.outcome = "raise", !.exch = exch]
                /\ UNCHANGED <<session, qp>>
           ELSE IF ~verif.ok
           THEN /\ auth' = [read EXCEPT !.outcome = "raise", !.exch = exch]
                /\ UNCHANGED <<session, qp>>
           ELSE IF allowed # <<>> /\ ~InList(verif.email, allowed)
           THEN /\ auth' = [read EXCEPT !.outcome = "stop", !.msg = "Unauthorized email.",
                                        !.exch = exch, !.verified = TRUE,
                                        !.email = verif.email]
                /\ UNCHANGED <<session, qp>>
           ELSE /\ session' = [has |-> TRUE, email |-> verif.email]
                /\ qp' = NoParams
                /\ auth' = [read EXCEPT !.outcome = "return", !.stored = TRUE,
                                        !.exch = exch, !.verified = TRUE,
                                        !.email = verif.email]
        /\ UNCHANGED secrets
        /\ UNCHANGED <<chunkVars, indexVars, uploadVars>>

\* lines 135-138, from the "Log out" button a signed-in run renders
Logout ==
    /\ session.has
    /\ session' = NoSession
    /\ auth' = [NoAuth EXCEPT !.op = "logout"]
    /\ UNCHANGED <<secrets, qp>>
    /\ UNCHANGED <<chunkVars, indexVars, uploadVars>>

AuthNext ==
    \/ \E c \in CodeParams, s \in StateParams : Navigate(c, s)
    \/ \E nonce \in Nonces, exch \in {"ok", "raise"},
          verif \in {[ok |-> FALSE, email |-> ""]}
                      \cup {[ok |-> TRUE, email |-> e] : e \in TokenEmails} :
            RequireGoogleAuth(nonce, exch, verif)
    \/ Logout

AuthSpec == AuthInit /\ [][AuthNext]_vars

-----------------------------------------------------------------------------
(* The upload tab, one script run per action *)

UploadInit ==
    /\ max_audio_minutes \in 1..MaxMinutes
    /\ uploaded = NoFile
    /\ transcript = NoTranscript
    /\ saved = {}
    /\ shown = NothingShown
    /\ up = NoUp
    /\ IndexInit
    /\ ChunkOff
    /\ AuthOff

\* main.py:248-283, one run of the tab's body with the file f in the
\* uploader; clicked is what st.button("Transcribe") answers if it is reached
TabRun(op, f, clicked) ==
    LET dur == AudioDurationMs(f)
        call == TranscribeCall
    IN  /\ uploaded' = f
        /\ IF ~f.has
           THEN /\ shown' = NothingShown
                /\ up' = [NoUp EXCEPT !.op = op]
                /\ UNCHANGED <<transcript, saved>>
           ELSE IF ~MinutesLimitOk(dur, max_audio_minutes)
           THEN /\ shown' = [info |-> TRUE, dur |-> dur, error |-> TRUE, button |-> FALSE]
                /\ up' = [NoUp EXCEPT !.op = op]
                /\ UNCHANGED <<transcript, saved>>
           ELSE /\ shown' = [info |-> TRUE, dur |-> dur, error |-> FALSE, button |-> TRUE]
                /\ IF ~clicked
                   THEN /\ up' = [NoUp EXCEPT !.op = op]
                        /\ UNCHANGED <<transcript, saved>>
                   ELSE IF call.status = "ok"
                   THEN /\ transcript' = [has |-> TRUE, of |-> f]
                        /\ saved' = saved \cup {f}
                        /\ up' = [NoUp EXCEPT !.op = op, !.started = TRUE, !.stored = TRUE]
                   ELSE /\ up' = [NoUp EXCEPT !.op = op, !.started = call.started,
                                              !.err = call.err]
                        /\ UNCHANGED <<transcript, saved>>
        /\ UNCHANGED max_audio_minutes
        /\ UNCHANGED <<chunkVars, indexVars, authVars>>

\* The user puts a file into the uploader (main.py:250)
UploadFile(f) == TabRun("upload", f, FALSE)

\* The user takes the file out of the uploader
RemoveFile ==
    /\ uploaded.has
    /\ TabRun("remove", NoFile, FALSE)

\* The user presses the Transcribe button the last run rendered (main.py:275)
ClickTranscribe ==
    /\ shown.button
    /\ TabRun("click", uploaded, TRUE)

\* Any other widget of the page makes the script run again
Rerun == TabRun("rerun", uploaded, FALSE)

UploadNext ==
    \/ \E f \in Files : UploadFile(f)
    \/ RemoveFile
    \/ ClickTranscribe
    \/ Rerun

UploadSpec == UploadInit /\ [][UploadNext]_vars

-----------------------------------------------------------------------------
(* Claims about simple_chunk, checked under ChunkSpec / ChunkFairSpec *)

ValidParams == 0 <= overlap /\ overlap < chunk_chars

InvalidParams == overlap >= chunk_chars \/ chunk_chars <= 0

\* Overlaying the chunks in order: every chunk after the first is placed
\* chunk_chars - overlap characters after the previous one, so its first
\* `overlap` characters fall on text already laid down and are dropped.
RECURSIVE Overlay(_, _)
Overlay(cs, ov) ==
    IF cs = <<>> THEN <<>>
    ELSE IF Len(cs) = 1 THEN cs[1]
    ELSE Overlay(SubSeq(cs, 1, Len(cs) - 1), ov)
             \o SubSeq(cs[Len(cs)], ov + 1, Len(cs[Len(cs)]))

\* C4: a call with invalid chunking parameters (overlap >= chunk_chars or
\* chunk_chars <= 0) is rejected at call time: it never gets as far as
\* returning a list computed from those parameters.
C4_InvalidParamsNeverReturn == InvalidParams => pc # "done"

\* C6 as stated: for valid parameters the returned chunks, overlaid in order,
\* reconstruct exactly the cleaned text.
C6_ReturnedChunksReconstruct ==
    (pc = "done" /\ ValidParams) => Overlay(result, overlap) = CleanText(arg_text)

\* C6 as amended: for valid parameters the windows cut by the loop, overlaid
\* in order, reconstruct exactly the cleaned text, and the returned chunks do
\* so whenever no window was whitespace-only (none was dropped at line 26).
C6_WindowsReconstruct ==
    (pc = "done" /\ ValidParams) =>
        /\ Overlay(chunks, overlap) = CleanText(arg_text)
        /\ (result = chunks => Overlay(result, overlap) = CleanText(arg_text))

\* A valid call that returned several overlapping chunks, none dropped, of a
\* text that cleaning changed.
C6_Witness ==
    /\ pc = "done"
    /\ ValidParams
    /\ overlap > 0
    /\ Len(result) >= 2
    /\ result = chunks
    /\ CleanText(arg_text) # arg_text

C10_ChunkTerminates ==
    /\ [][(ValidParams /\ pc = "while" /\ pc' = "while") =>
              /\ start' = start + chunk_chars - overlap
              /\ start' > start]_chunkVars
    /\ [][(ValidParams /\ pc = "while" /\ iters' = iters + 1 /\ pc' = "ret") =>
              /\ end' = Len(text)
              /\ end' <= start + chunk_chars
              /\ chunks'[Len(chunks')] = SubSeq(text, start + 1, Len(text))]_chunkVars
    /\ [][(ValidParams /\ pc = "while" /\ iters' = iters + 1 /\ end' = Len(text)) =>
              pc' = "ret"]_chunkVars
    /\ [](ValidParams => iters <= Len(text))
    /\ ((ValidParams /\ pc = "call") ~> (pc = "done"))

\* A valid call that returned after two windows, the second one clipped
\* short of chunk_chars.
C10_Witness ==
    /\ pc = "done"
    /\ ValidParams
    /\ Len(chunks) >= 2
    /\ start = chunk_chars - overlap
    /\ Len(chunks[Len(chunks)]) < chunk_chars

-----------------------------------------------------------------------------
(* Claims about InMemoryIndex, checked under Spec *)

\* The segment list passed to the build call r
ArgSegments(r) == BuildSegments[<<r.doc, r.n>>]

\* The segment list passed to the most recent successful build
GoodSegments == IF hist.built THEN ArgSegments(hist) ELSE <<>>

Range(f) == {f[i] : i \in 1..Len(f)}

\* The index state is what the most recent successful build left (or the
\* never-built state): the segments, the number and length of the vectors, dim
StateOfLastGoodBuild ==
    /\ meta = GoodSegments
    /\ dim = hist.dim
    /\ index.none = ~hist.built
    /\ index.d = hist.dim
    /\ Len(index.xb) = Len(GoodSegments)

\* All batches answered, with vectors of different lengths
DimsDiffer(resps) ==
    /\ \A b \in 1..Len(resps) : resps[b].ok
    /\ \E b \in 1..Len(resps) : resps[b].d # resps[1].d

\* The positions of I that are not padding, in order
RECURSIVE Positions(_)
Positions(I) ==
    IF I = <<>> THEN <<>>
    ELSE IF Head(I) = 0 - 1 THEN Positions(Tail(I))
    ELSE <<Head(I)>> \o Positions(Tail(I))

\* The normalised query row of the query call r
QueryRow(r) == NormalizeRow(RawEmbedding(r.q, r.resps[1].d))

\* The stored rows at the returned positions have non-increasing inner
\* product with the query row
Descending(r) ==
    LET P == Positions(r.I)
        q == QueryRow(r)
    IN  \A p \in 1..(Len(P) - 1) :
            Dot(index.xb[P[p] + 1], q) * index.xb[P[p + 1] + 1].den
                >= Dot(index.xb[P[p + 1] + 1], q) * index.xb[P[p] + 1].den

\* C1: after a build that failed because the embedding call raised, meta, the
\* stored vectors and dim are those of the last successful build (or of the
\* never-built index).
C1_FailedBuildKeepsIndex ==
    (ret.op = "build" /\ ret.status = "error" /\ ret.err = "ProviderError")
        => StateOfLastGoodBuild

\* C2: on an index on which a build has succeeded, a query that returns gives
\* at most top_k segments, all of them elements of the list passed to the most
\* recent successful build, in order of non-increasing similarity.
C2_QueryFromLastGoodBuild ==
    (ret.op = "query" /\ ret.status = "ok" /\ hist.built) =>
        /\ Len(ret.hits) <= ret.top_k
        /\ \A i \in 1..Len(ret.hits) : ret.hits[i] \in Range(GoodSegments)
        /\ Descending(ret)

\* C3: a query on an index on which no build ever succeeded returns the
\* empty list, raises nothing and makes no call to the embedding provider.
C3_QueryUnbuiltIsEmpty ==
    (ret.op = "query" /\ ~hist.built) =>
        /\ ret.status = "ok"
        /\ ret.hits = <<>>
        /\ ret.calls = 0

\* A query on an index whose only build attempt failed, asked at a moment the
\* provider would have raised.
C3_Witness ==
    /\ ret.op = "query"
    /\ ~hist.built
    /\ hist.failedSince
    /\ meta # <<>>
    /\ ~ret.resps[1].ok
    /\ ret.hits = <<>>

\* C5: a successful build replaces what was there (meta is the list passed,
\* one stored vector per segment, dim their length), query results after it
\* come from that list only, and building the same list again with the same
\* provider answers leaves meta, the vectors and dim as they were.
C5_BuildReplacesAndIsIdempotent ==
    /\ [][(ret'.op = "build" /\ ret'.status = "ok") =>
              /\ meta' = ArgSegments(ret')
              /\ ~index'.none
              /\ Len(index'.xb) = ret'.n
              /\ index'.d = ret'.resps[1].d
              /\ dim' = index'.d]_vars
    /\ [][(/\ ret.op = "build" /\ ret.status = "ok"
           /\ ret'.op = "build" /\ ret'.status = "ok"
           /\ ret'.doc = ret.doc /\ ret'.n = ret.n /\ ret'.resps = ret.resps) =>
              (meta' = meta /\ index' = index /\ dim' = dim)]_vars
    /\ [](((/\ ret.op = "query" /\ ret.status = "ok"
             /\ hist.built /\ ~hist.failedSince /\ ~hist.mutated)) =>
              /\ \A i \in 1..Len(ret.hits) : ret.hits[i] \in Range(GoodSegments)
              /\ Len(ret.hits) = Min(ret.top_k, Len(GoodSegments)))

\* A successful build of a list of several segments over an index built from
\* a different list.
C5_Witness ==
    /\ ret.op = "build"
    /\ ret.status = "ok"
    /\ hist.replaced
    /\ ret.n >= 2
    /\ Len(index.xb) = ret.n

\* C7: a build whose batches come back with vectors of different lengths
\* fails, and meta, the stored vectors and dim stay those of the last
\* successful build.
C7_DimMismatchKeepsIndex ==
    (ret.op = "build" /\ DimsDiffer(ret.resps)) =>
        /\ ret.status = "error"
        /\ StateOfLastGoodBuild

\* C9: when the provider call of a query on a built index raises, the query
\* raises that error (it returns no list) and meta, the index and dim are
\* left as they were.
C9_QueryProviderErrorPropagates ==
    [][(ret'.op = "query" /\ ~index.none /\ ~ret'.resps[1].ok) =>
           /\ ret'.status = "error"
           /\ ret'.err = "ProviderError"
           /\ ret'.hits = <<>>
           /\ ret'.calls = 1
           /\ index' = index
           /\ meta' = meta
           /\ dim' = dim]_vars

\* A query on a built index during which the provider raised.
C9_Witness ==
    /\ ret.op = "query"
    /\ ~index.none
    /\ Len(index.xb) >= 2
    /\ ~ret.resps[1].ok
    /\ ret.status = "error"

\* C11: after a successful build over n segments the stored vector at every
\* position is the normalised embedding of the text of the segment at that
\* position, across batch boundaries; embed made one provider call per batch
\* of at most B texts.
C11_StoredVectorsInSegmentOrder ==
    /\ ~index.none =>
          /\ Len(index.xb) = Len(GoodSegments)
          /\ \A i \in 1..Len(index.xb) :
                index.xb[i] = NormalizeRow(RawEmbedding(GoodSegments[i].text, index.d))
    /\ (ret.op = "build" /\ ret.status = "ok") =>
          /\ ret.calls = NumBatches(ret.n)
          /\ \A b \in 1..ret.calls :
                Len(Batch(BuildTexts[<<ret.doc, ret.n>>], b)) \in 1..B

\* A successful build of a list that needs a second, partly filled batch.
C11_Witness ==
    /\ ret.op = "build"
    /\ ret.status = "ok"
    /\ ret.n > B
    /\ ret.n % B # 0
    /\ Len(index.xb) = ret.n

\* C12: a query, whether it returns or raises, leaves meta, the stored
\* vectors and dim as they were; the vectors and dim change in build only.
C12_QueryLeavesIndexUnchanged ==
    /\ [][ret'.op = "query" => (meta' = meta /\ index' = index /\ dim' = dim)]_vars
    /\ [][(index' # index \/ dim' # dim) => ret'.op = "build"]_vars

\* A query that returned two segments of a built index.
C12_Witness ==
    /\ ret.op = "query"
    /\ ret.status = "ok"
    /\ ~index.none
    /\ Len(ret.hits) = 2
    /\ meta = GoodSegments

\* C14: whatever builds (succeeding or failing, of empty lists too) and
\* queries were made, a non-empty vector index holds as many vectors as meta
\* holds segments, and no query raises an out-of-range lookup.  (States in
\* which the caller changed its list are left aside: they are C16's.)
C14_VectorCountMatchesMeta ==
    ~hist.mutated =>
        /\ (~index.none /\ index.xb # <<>>) => Len(index.xb) = Len(meta)
        /\ ~(ret.op = "query" /\ ret.err = "IndexError")

\* C16: what the caller does to the list it passed, after build returned,
\* does not reach the index: after a successful build (and no failed one
\* since) meta is the list as it was passed, and a query returns segments of
\* that list only.
C16_CallerChangesDoNotReachIndex ==
    (hist.built /\ ~hist.failedSince) =>
        /\ meta = GoodSegments
        /\ (ret.op = "query" /\ ret.status = "ok") =>
               \A i \in 1..Len(ret.hits) : ret.hits[i] \in Range(GoodSegments)

\* C17: on an index holding n vectors and n segments, a query whose embedding
\* call succeeded returns exactly min(top_k, n) segments, looked up at
\* pairwise distinct positions of 0..n-1 (all of them when top_k >= n); the
\* search answers top_k entries and the -1 padding among them is skipped.
C17_QueryReturnsMinTopKAndN ==
    (/\ ret.op = "query" /\ ~index.none /\ Len(meta) = Len(index.xb)
     /\ ret.resps[1].ok /\ ret.resps[1].d = index.d) =>
        LET n == Len(index.xb)
            P == Positions(ret.I)
        IN  /\ ret.status = "ok"
            /\ Len(ret.I) = ret.top_k
            /\ Len(P) = Min(ret.top_k, n)
            /\ \A a \in 1..Len(P) : P[a] \in 0..(n - 1)
            /\ \A a, b \in 1..Len(P) : a # b => P[a] # P[b]
            /\ ret.top_k >= n => {P[a] : a \in 1..Len(P)} = 0..(n - 1)
            /\ Len(ret.hits) = Len(P)
            /\ \A a \in 1..Len(P) : ret.hits[a] = meta[P[a] + 1]

\* A query asking for more segments than the index holds: the search padded
\* its answer.
C17_Witness ==
    /\ ret.op = "query"
    /\ ret.status = "ok"
    /\ ret.top_k > Len(index.xb)
    /\ \E p \in 1..Len(ret.I) : ret.I[p] = 0 - 1
    /\ Len(ret.hits) = Len(index.xb)
    /\ ret.hits # <<>>

-----------------------------------------------------------------------------
(* Claims about require_google_auth, checked under AuthSpec *)

\* The state parameter is nonce.HMAC(client_secret, nonce) for some nonce
StateSigned(state, secret) ==
    \E n \in StateStrings : state = n \o <<".">> \o B64Hmac(secret, n)

\* What the run read and did satisfies all the conditions of C15
AuthConditions ==
    /\ auth.code # <<>>
    /\ StateSigned(auth.state, secrets.client_secret)
    /\ auth.exch = "ok"
    /\ auth.verified
    /\ secrets.allowed # <<>> => InList(auth.email, secrets.allowed)

\* The run stopped (st.stop()) or was ended by an exception
RunStopped == auth.outcome \in {"stop", "raise"}

\* C15 as stated: a run stores user_email, and returns it, only if the code
\* parameter was non-empty, the state parameter verified, token exchange and
\* ID-token verification succeeded and the email is allowed; every other run
\* stops with no user_email in the session state.
C15_EveryOtherRunStops ==
    auth.op = "run" =>
        \/ /\ auth.stored
           /\ AuthConditions
           /\ auth.outcome = "return"
           /\ session = [has |-> TRUE, email |-> auth.email]
        \/ /\ ~auth.stored
           /\ RunStopped
           /\ ~session.has

\* C15 as amended: a run stores user_email only under those conditions; a
\* run that finds user_email already in the session state returns the stored
\* value and sets nothing; every other run stops, the session state unchanged.
C15_StoresOnlyWhenVerified ==
    /\ [](auth.op = "run" =>
            \/ /\ auth.stored
               /\ ~auth.had
               /\ AuthConditions
               /\ auth.outcome = "return"
               /\ session = [has |-> TRUE, email |-> auth.email]
            \/ /\ ~auth.stored
               /\ auth.had
               /\ auth.outcome = "return"
               /\ session = [has |-> TRUE, email |-> auth.email]
            \/ /\ ~auth.stored
               /\ ~auth.had
               /\ RunStopped
               /\ ~session.has)
    /\ [][(auth'.op = "run" /\ ~auth'.stored) => session' = session]_vars
    /\ [][session' # session => (auth'.op = "logout" \/ auth'.stored)]_vars

\* A run that stored an allowed email, reached through the state that the
\* sign-in link of an earlier run carried.
C15_Witness ==
    /\ auth.op = "run"
    /\ auth.stored
    /\ secrets.allowed # <<>>
    /\ \E n \in Nonces : auth.state = MakeState(secrets.client_secret, n)
    /\ session.has
    /\ qp = NoParams

-----------------------------------------------------------------------------
(* Claims about the upload tab, checked under UploadSpec *)

\* The file is longer than MAX_AUDIO_MINUTES minutes
OverLimit(f) == f.has /\ f.ms > max_audio_minutes * MsPerMinute

\* C18: transcription is started, and a transcript stored and saved, only for
\* an uploaded file of at most MAX_AUDIO_MINUTES minutes; for a file over the
\* limit the run shows the error, does not offer Transcribe and stores nothing.
C18_OnlyWithinLimit ==
    /\ (up.op # "none" /\ OverLimit(uploaded)) =>
          /\ shown.error
          /\ ~shown.button
          /\ ~up.started
          /\ ~up.stored
    /\ transcript.has => ~OverLimit(transcript.of)
    /\ \A f \in saved : ~OverLimit(f)

====
